---- MODULE Spec2Model ----
(***************************************************************************)
(* A model of the drone-detection window of hackrf-pyqt (src/app.py): the  *)
(* spectrum computation, the threshold detector, the alert sound, the      *)
(* frequency sliders and the shutdown of the device.                       *)
(*                                                                         *)
(* Units and scaling.  Frequencies are in kHz (10 GHz does not fit a       *)
(* 32-bit integer in Hz).  A sample component s stands for s/10.  Linear   *)
(* power is a numerator over PowerDen.  A power in dB is kept in half-dB   *)
(* ticks: the even tick 2k is exactly k dB and the odd tick 2k+1 is any    *)
(* value strictly between k dB and k+1 dB, so that the order of dB values  *)
(* against the integer threshold of the slider is exact.                   *)
(***************************************************************************)
EXTENDS Integers, Sequences, FiniteSets, TLC

\* ------------------------------------------------------------ constants
FREQUENCY == 2400000
SAMPLE_RATE == 10000
\* 8192 in the source.  The model analyses a 4-point segment, the shortest
\* one whose one-sided spectrum has a DC, an interior and a Nyquist bin.
BUFFER_SIZE == 4
THRESHOLD_POWER == -50
FREQ_MIN == 1000000
FREQ_MAX == 10000000
FREQ_SLIDER_MAX == 1000
FREQ_SCALE == (FREQ_MAX - FREQ_MIN) \div FREQ_SLIDER_MAX
SLIDER_MIN == -120
SLIDER_MAX == 0
LNA_GAIN == 40
VGA_GAIN == 20

\* ------------------------------------------------------------ bounds
\* Largest amplitude of the buffers the device delivers.
MaxAmp == 2
\* Largest sample component of the buffers given to the spectrum analysis.
MaxSample == 2
\* Number of frequency-slider changes followed.
MaxFreqChanges == 4

\* ------------------------------------------------------------ values
None == [none |-> TRUE]

NaN == [kind |-> "nan", v |-> 0]
NegInf == [kind |-> "neginf", v |-> 0]
Fin(v) == [kind |-> "fin", v |-> v]

\* Linear power: a numerator over a denominator, or NaN.
LinNaN == [nan |-> TRUE, num |-> 0]
Lin(n) == [nan |-> FALSE, num |-> n]

Idx == 1..BUFFER_SIZE

RECURSIVE SumSeq(_)
SumSeq(s) == IF s = <<>> THEN 0 ELSE Head(s) + SumSeq(Tail(s))

\* ------------------------------------------------------------ welch
\* scipy.signal.welch(x, fs, nperseg=len(x), scaling="spectrum") with its
\* defaults: one segment, periodic Hann window, constant detrend, one-sided.
\* Twice the periodic Hann window of length 4, (0, 1/2, 1, 1/2).
HannWindow2 == <<0, 1, 2, 1>>

\* 256 * 10^2: the window is doubled and the detrended samples are taken
\* four-fold (64 in the squared magnitude), "spectrum" scaling divides by
\* the squared window sum (4), and a sample component stands for s/10.
PowerDen == 25600

\* 8 * w[n] * (x[n] - mean(x))
Windowed(x) ==
  LET sum == SumSeq(x)
      y(n) == HannWindow2[n] * (BUFFER_SIZE * x[n] - sum)
  IN  <<y(1), y(2), y(3), y(4)>>

\* Squared magnitudes of the 4-point DFT at the bins 0, 1, 2.
Dft2(y) ==
  << (y[1] + y[2] + y[3] + y[4]) * (y[1] + y[2] + y[3] + y[4]),
     (y[1] - y[3]) * (y[1] - y[3]) + (y[4] - y[2]) * (y[4] - y[2]),
     (y[1] - y[2] + y[3] - y[4]) * (y[1] - y[2] + y[3] - y[4]) >>

\* rfftfreq: bin k is k * fs / n.
WelchFreq(k) == ((k - 1) * SAMPLE_RATE) \div BUFFER_SIZE
WelchFreqs == <<WelchFreq(1), WelchFreq(2), WelchFreq(3)>>

\* One-sided power: the interior bins are doubled, DC and Nyquist are not.
WelchPower(x, finite) ==
  IF ~finite THEN <<LinNaN, LinNaN, LinNaN>>
  ELSE LET m == Dft2(Windowed(x))
       IN  <<Lin(m[1]), Lin(2 * m[2]), Lin(m[3])>>

\* ------------------------------------------------------------ log10
\* Powers are brought to the denominator LogDen before the logarithm.
LogDen == 2 * PowerDen

\* The least integer M with M / LogDen >= 10^(m/10), for m = 0..9: a power
\* n / LogDen in [1, 10) is at least m/10 decades iff n >= Log10Table[m+1].
Log10Table ==
  <<51200, 64457, 81147, 102158, 128609, 161909, 203831, 256608, 323051, 406697>>

\* <<n', e>> with n / LogDen = (n' / LogDen) * 10^e and 1 <= n' / LogDen < 10
\* (a power of 10 LogDen or more loses the digits below LogDen / 10^e).
RECURSIVE Normalise(_, _)
Normalise(n, e) ==
  IF n < LogDen THEN Normalise(10 * n, e - 1)
  ELSE IF n >= 10 * LogDen THEN Normalise(n \div 10, e + 1)
  ELSE <<n, e>>

\* 10 * log10(n / LogDen) in half-dB ticks: -inf at 0, NaN below 0.
Log10x10(n) ==
  IF n = 0 THEN NegInf
  ELSE IF n < 0 THEN NaN
  ELSE LET ne == Normalise(n, 0)
           m  == CHOOSE i \in 0..9 :
                   /\ ne[1] >= Log10Table[i + 1]
                   /\ \A j \in (i + 1)..9 : ne[1] < Log10Table[j + 1]
           fl == 10 * ne[2] + m
           exact == ne[1] = LogDen /\ (ne[2] <= 0 \/ n = LogDen * 10^ne[2])
       IN  Fin(2 * fl + (IF exact THEN 0 ELSE 1))

\* 10 * np.log10(p / div) of one bin, div being 1 or 2.
ToDb(p, div) == IF p.nan THEN NaN ELSE Log10x10(p.num * (2 \div div))

\* ------------------------------------------------------------ spectrum
\* A sample buffer: complex or real dtype, the real and imaginary
\* components, and whether every component is finite.
RealBuffer(re) ==
  [complex |-> FALSE, re |-> re, im |-> <<0, 0, 0, 0>>, finite |-> TRUE]
ComplexBuffer(re, im) ==
  [complex |-> TRUE, re |-> re, im |-> im, finite |-> TRUE]

\* freqs[freqs >= 0], power[freqs >= 0]
RECURSIVE Mask(_, _)
Mask(vals, freqs) ==
  IF freqs = <<>> THEN <<>>
  ELSE IF Head(freqs) >= 0
       THEN <<Head(vals)>> \o Mask(Tail(vals), Tail(freqs))
       ELSE Mask(Tail(vals), Tail(freqs))

positive_freqs(freqs) == Mask(freqs, freqs)

\* power[freqs > 0]: the mask of the power loses the bin at 0 Hz.
RECURSIVE MaskPositive(_, _)
MaskPositive(vals, freqs) ==
  IF freqs = <<>> THEN <<>>
  ELSE IF Head(freqs) > 0
       THEN <<Head(vals)>> \o MaskPositive(Tail(vals), Tail(freqs))
       ELSE MaskPositive(Tail(vals), Tail(freqs))

positive_power_strict(power, freqs) == MaskPositive(power, freqs)

positive_power(power, freqs) == Mask(power, freqs)

\* The complex path without the division by 2.
power_complex_no_halving(samples) ==
  LET power_real == WelchPower(samples.re, samples.finite)
      power_imag == WelchPower(samples.im, samples.finite)
      power(k) == IF power_real[k].nan \/ power_imag[k].nan THEN LinNaN
                  ELSE Lin(power_real[k].num + power_imag[k].num)
  IN  <<ToDb(power(1), 1), ToDb(power(2), 1), ToDb(power(3), 1)>>

power_complex(samples) ==
  LET power_real == WelchPower(samples.re, samples.finite)
      power_imag == WelchPower(samples.im, samples.finite)
      power(k) == IF power_real[k].nan \/ power_imag[k].nan THEN LinNaN
                  ELSE Lin(power_real[k].num + power_imag[k].num)
  IN  <<ToDb(power(1), 2), ToDb(power(2), 2), ToDb(power(3), 2)>>

power_real_only(samples) ==
  LET power == WelchPower(samples.re, samples.finite)
  IN  <<ToDb(power[1], 1), ToDb(power[2], 1), ToDb(power[3], 1)>>

compute_spectrum(samples) ==
  LET freqs == WelchFreqs
      power == IF samples.complex THEN power_complex(samples)
               ELSE power_real_only(samples)
  IN  [freqs |-> positive_freqs(freqs), power |-> positive_power(power, freqs)]

\* np.max(power): NaN if any bin is NaN, else the largest bin.
np_max(power) ==
  IF \E k \in 1..Len(power) : power[k].kind = "nan" THEN NaN
  ELSE IF \A k \in 1..Len(power) : power[k].kind = "neginf" THEN NegInf
  ELSE LET fin == {k \in 1..Len(power) : power[k].kind = "fin"}
       IN  power[CHOOSE k \in fin : \A j \in fin : power[j].v <= power[k].v]

\* ------------------------------------------------------------ device
Zeros == <<0, 0, 0, 0>>
Nyquist(a) == <<a, 0 - a, a, 0 - a>>
NonFinite == [complex |-> TRUE, re |-> Zeros, im |-> Zeros, finite |-> FALSE]

\* The buffers read_samples delivers in the model: silence, a buffer with a
\* non-finite sample, and tones at half the sample rate on I and Q
\* (amplitude 1 is exactly -20 dB, amplitude 2 is about -13.98 dB).
DeviceBuffers ==
  {ComplexBuffer(Zeros, Zeros), NonFinite}
    \cup {ComplexBuffer(Nyquist(a), Nyquist(a)) : a \in 1..MaxAmp}

ReadResults == DeviceBuffers \cup {None}

\* compute_spectrum of each buffer the device delivers, computed once.
SpectrumTable == {<<b, compute_spectrum(b)>> : b \in DeviceBuffers}
Spectrum(b) == (CHOOSE p \in SpectrumTable : p[1] = b)[2]

\* read_samples on a closed device raised.
ReadError == [error |-> TRUE]

\* analyze_signal, given what its read_samples call returned.
analyze_signal(samples) ==
  IF samples = None THEN NegInf ELSE np_max(Spectrum(samples).power)

\* max_power >= power_level.
GreaterOrEqual(max_power, power_level) ==
  max_power.kind = "fin" /\ max_power.v >= 2 * power_level

\* not (max_power <= power_level): true of NaN.
NotLessOrEqual(max_power, power_level) ==
  \/ max_power.kind = "nan"
  \/ max_power.kind = "fin" /\ max_power.v > 2 * power_level

\* max_power > power_level, as IEEE 754 compares a float with an integer.
GreaterThan(max_power, power_level) ==
  max_power.kind = "fin" /\ max_power.v > 2 * power_level

\* play() without the isPlaying() test.
drone_detected_always_plays(playing) ==
  [status |-> "Detected", playing |-> TRUE, played |-> TRUE, stopped |-> FALSE]

\* The sound is left playing.
drone_not_detected_no_stop(playing) ==
  [status |-> "NotDetected", playing |-> playing, played |-> FALSE, stopped |-> FALSE]

\* The label text, isPlaying() after the call, and whether the call started
\* or stopped the sound.
drone_detected(playing) ==
  [status |-> "Detected", playing |-> TRUE, played |-> ~playing, stopped |-> FALSE]

drone_not_detected(playing) ==
  [status |-> "NotDetected", playing |-> FALSE, played |-> FALSE, stopped |-> playing]

check_bandwidth(samples, power_level, playing) ==
  IF GreaterThan(analyze_signal(samples), power_level)
  THEN drone_detected(playing)
  ELSE drone_not_detected(playing)

\* The values one key press moves the threshold slider to: single step 1,
\* page step 10, kept within the slider's range.
SliderSteps == {-10, -1, 1, 10}
Clamp(v) == IF v < SLIDER_MIN THEN SLIDER_MIN ELSE IF v > SLIDER_MAX THEN SLIDER_MAX ELSE v
SliderMoves(v) == {Clamp(v + d) : d \in SliderSteps} \ {v}

\* The positions the frequency sliders are moved to.
FreqSliderValues == {0, 155, 500, FREQ_SLIDER_MAX}

RECURSIVE Pow2(_)
Pow2(e) == IF e = 0 THEN 1 ELSE 2 * Pow2(e - 1)

\* center_freq = freq: the slider's frequency set directly.
SetFreq(cf, freq) == [num |-> freq * Pow2(cf.exp + 1), exp |-> cf.exp + 1]

\* (center_freq + freq) / 2, exactly: num / 2^exp with one more binary place.
Average(cf, freq) == [num |-> cf.num + freq * Pow2(cf.exp), exp |-> cf.exp + 1]

\* np.real(samples)
np_real(samples) ==
  [complex |-> FALSE, re |-> samples.re, im |-> Zeros, finite |-> samples.finite]

\* The buffers given to the spectrum analysis: every complex and every
\* real buffer with components in 0..MaxSample, and a non-finite one.
Components == {<<a, b, c, d>> : a \in 0..MaxSample, b \in 0..MaxSample,
                               c \in 0..MaxSample, d \in 0..MaxSample}
SampleBuffers ==
  {ComplexBuffer(re, im) : re \in Components, im \in Components}
    \cup {RealBuffer(re) : re \in Components}
    \cup {NonFinite}

EmptyPlot == [freqs |-> <<>>, power |-> <<>>]

VARIABLES
  slider,           \* self.slider.value()
  drone_status,     \* text of drone_status_label
  sound_playing,    \* sound_alert.isPlaying()
  spectrum_line,    \* data of the plotted curve
  device_open,      \* hackrf not yet closed
  timer_active,     \* self.timer is running
  phase,            \* "running", "closing" (closeEvent ran), "exited", "crashed"
  center_freq,      \* hackrf.center_freq = num / 2^exp kHz
  sample_rate, lna_gain, vga_gain,
  freq_min_slider, freq_max_slider,
  op,               \* the handler that ran last
  prev_status,      \* drone_status when it started
  reads,            \* what its read_samples calls returned, in order
  played, stopped,  \* whether it called sound_alert.play() / stop()
  close_calls,      \* number of hackrf.close() calls
  input,          \* input of the spectrum analysis
  spectrum_out,     \* compute_spectrum(samples)
  real_out          \* compute_spectrum(np.real(samples))

detector == <<slider, drone_status, sound_playing>>
device == <<device_open, timer_active, phase, close_calls>>
freqvars == <<center_freq, sample_rate, lna_gain, vga_gain, freq_min_slider, freq_max_slider>>
analysis == <<input, spectrum_out, real_out>>
vars == <<slider, drone_status, sound_playing, spectrum_line, device_open,
          timer_active, phase, center_freq, sample_rate, lna_gain, vga_gain,
          freq_min_slider, freq_max_slider, op, prev_status, reads, played,
          stopped, close_calls, input, spectrum_out, real_out>>

\* ------------------------------------------------------------ __init__
InitApp ==
  /\ slider = THRESHOLD_POWER
  /\ drone_status = "NotDetected"
  /\ sound_playing = FALSE
  /\ spectrum_line = EmptyPlot
  /\ device_open = TRUE
  /\ timer_active = TRUE
  /\ phase = "running"
  /\ center_freq = [num |-> FREQUENCY, exp |-> 0]
  /\ sample_rate = SAMPLE_RATE
  /\ lna_gain = LNA_GAIN
  /\ vga_gain = VGA_GAIN
  /\ freq_min_slider = (FREQUENCY - FREQ_MIN) \div FREQ_SCALE
  /\ freq_max_slider = (FREQUENCY + 1000000 - FREQ_MIN) \div FREQ_SCALE
  /\ op = "init"
  /\ prev_status = "NotDetected"
  /\ reads = <<>>
  /\ played = FALSE
  /\ stopped = FALSE
  /\ close_calls = 0

NoAnalysis ==
  /\ input = None
  /\ spectrum_out = EmptyPlot
  /\ real_out = EmptyPlot

Init == InitApp /\ NoAnalysis

\* ------------------------------------------------------------ handlers
\* The effect of check_bandwidth on the label and the sound.
Evaluate(s) ==
  LET r == check_bandwidth(s, slider', sound_playing)
  IN  /\ drone_status' = r.status
      /\ sound_playing' = r.playing
      /\ played' = r.played
      /\ stopped' = r.stopped

\* update_spectrum: the timer's timeout.
UpdateSpectrum ==
  /\ timer_active
  /\ phase \in {"running", "closing"}
  /\ prev_status' = drone_status
  /\ op' = "update_spectrum"
  /\ UNCHANGED <<freqvars, analysis, device_open, timer_active, close_calls>>
  /\ \/ /\ reads' = <<None>>
        /\ played' = FALSE
        /\ stopped' = FALSE
        /\ UNCHANGED <<detector, spectrum_line, phase>>
     \/ \E s1 \in DeviceBuffers, s2 \in ReadResults :
          /\ reads' = <<s1, s2>>
          /\ spectrum_line' = Spectrum(s1)
          /\ slider' = slider
          /\ Evaluate(s2)
          /\ UNCHANGED phase
     \/ /\ ~device_open
        /\ reads' = <<ReadError>>
        /\ phase' = "crashed"
        /\ played' = FALSE
        /\ stopped' = FALSE
        /\ UNCHANGED <<detector, spectrum_line>>

\* check_for_drone: the button.
CheckForDrone ==
  /\ phase = "running"
  /\ prev_status' = drone_status
  /\ op' = "check_for_drone"
  /\ \E s \in ReadResults :
       /\ reads' = <<s>>
       /\ slider' = slider
       /\ Evaluate(s)
  /\ UNCHANGED <<spectrum_line, freqvars, analysis, device>>

\* on_slider_change(value): the threshold slider moved to value.
OnSliderChange ==
  /\ phase = "running"
  /\ prev_status' = drone_status
  /\ op' = "on_slider_change"
  /\ \E value \in SliderMoves(slider), s \in ReadResults :
       /\ slider' = value
       /\ reads' = <<s>>
       /\ Evaluate(s)
  /\ UNCHANGED <<spectrum_line, freqvars, analysis, device>>

\* The sound effect reaches the end of alert.wav (it is played once).
SoundFinished ==
  /\ phase \in {"running", "closing"}
  /\ sound_playing
  /\ sound_playing' = FALSE
  /\ prev_status' = drone_status
  /\ op' = "sound_finished"
  /\ reads' = <<>>
  /\ played' = FALSE
  /\ stopped' = FALSE
  /\ UNCHANGED <<slider, drone_status, spectrum_line, freqvars, analysis, device>>

\* closeEvent: the window is closed.
CloseEvent ==
  /\ phase = "running"
  /\ device_open' = FALSE
  /\ close_calls' = close_calls + 1
  /\ phase' = "closing"
  /\ prev_status' = drone_status
  /\ op' = "closeEvent"
  /\ reads' = <<>>
  /\ played' = FALSE
  /\ stopped' = FALSE
  /\ UNCHANGED <<detector, spectrum_line, timer_active, freqvars, analysis>>

\* The event loop returns after the last window closed.
Quit ==
  /\ phase = "closing"
  /\ phase' = "exited"
  /\ prev_status' = drone_status
  /\ op' = "quit"
  /\ reads' = <<>>
  /\ played' = FALSE
  /\ stopped' = FALSE
  /\ UNCHANGED <<detector, spectrum_line, device_open, timer_active, close_calls,
                 freqvars, analysis>>

\* on_freq_min_change(value)
OnFreqMinChange ==
  /\ phase = "running"
  /\ center_freq.exp < MaxFreqChanges
  /\ prev_status' = drone_status
  /\ op' = "on_freq_min_change"
  /\ \E value \in FreqSliderValues \ {freq_min_slider} :
       /\ freq_min_slider' = value
       /\ center_freq' = Average(center_freq, FREQ_MIN + value * FREQ_SCALE)
  /\ reads' = <<>>
  /\ played' = FALSE
  /\ stopped' = FALSE
  /\ UNCHANGED <<detector, spectrum_line, device, analysis, sample_rate,
                 lna_gain, vga_gain, freq_max_slider>>

\* on_freq_max_change(value)
OnFreqMaxChange ==
  /\ phase = "running"
  /\ center_freq.exp < MaxFreqChanges
  /\ prev_status' = drone_status
  /\ op' = "on_freq_max_change"
  /\ \E value \in FreqSliderValues \ {freq_max_slider} :
       /\ freq_max_slider' = value
       /\ center_freq' = Average(center_freq, FREQ_MIN + value * FREQ_SCALE)
  /\ reads' = <<>>
  /\ played' = FALSE
  /\ stopped' = FALSE
  /\ UNCHANGED <<detector, spectrum_line, device, analysis, sample_rate,
                 lna_gain, vga_gain, freq_min_slider>>

\* compute_spectrum applied to the buffer under analysis.
ComputeSpectrum ==
  /\ input # None
  /\ spectrum_out = EmptyPlot
  /\ spectrum_out' = compute_spectrum(input)
  /\ UNCHANGED <<detector, spectrum_line, device, freqvars, op, prev_status,
                 reads, played, stopped, input, real_out>>

\* compute_spectrum applied to the real part of a complex buffer.
ComputeRealPart ==
  /\ input # None
  /\ input.complex
  /\ real_out = EmptyPlot
  /\ real_out' = compute_spectrum(np_real(input))
  /\ UNCHANGED <<detector, spectrum_line, device, freqvars, op, prev_status,
                 reads, played, stopped, input, spectrum_out>>

Next ==
  \/ UpdateSpectrum
  \/ CheckForDrone
  \/ OnSliderChange
  \/ SoundFinished
  \/ CloseEvent
  \/ Quit

Spec == Init /\ [][Next]_vars

\* The frequency sliders alone: they touch nothing the detector reads.
NextFreq == OnFreqMinChange \/ OnFreqMaxChange

SpecFreq == Init /\ [][NextFreq]_vars

\* The spectrum analysis as a function of its input buffer.
InitSpectrum ==
  /\ InitApp
  /\ input \in SampleBuffers
  /\ spectrum_out = EmptyPlot
  /\ real_out = EmptyPlot

NextSpectrum == ComputeSpectrum \/ ComputeRealPart

SpecSpectrum == InitSpectrum /\ [][NextSpectrum]_vars

\* ------------------------------------------------------------ properties
\* The last handler ran check_bandwidth (update_spectrum does so only after
\* a first read that returned a buffer).
Evaluated ==
  \/ op \in {"check_for_drone", "on_slider_change"}
  \/ op = "update_spectrum" /\ Len(reads) = 2

\* The max power check_bandwidth compared: analyze_signal of the last read.
EvaluatedPower == analyze_signal(reads[Len(reads)])

\* C1: after a timer tick in which read_samples returned no buffer, the
\* detection state is Not Detected, whatever it was before the tick.
C1_NoBufferTickNotDetected ==
  (op = "update_spectrum" /\ \E i \in 1..Len(reads) : reads[i] = None)
    => drone_status = "NotDetected"

\* C2: a timer tick that obtained a buffer read exactly one buffer, and the
\* state it set is Detected iff the maximum power of the spectrum it plotted
\* is greater than the threshold.
C2_OneBufferPerTick ==
  (op = "update_spectrum" /\ Len(reads) > 0 /\ reads[1] \in DeviceBuffers)
    => /\ Len(reads) = 1
       /\ drone_status = "Detected" <=>
            LET m == np_max(spectrum_line.power)
            IN  m.kind = "fin" /\ m.v > 2 * slider

\* C3: the comparison is strict: an evaluated max power exactly equal to the
\* threshold gives Not Detected, and the state is Detected exactly when the
\* max power is a number greater than the threshold.
C3_StrictComparison ==
  Evaluated =>
    /\ EvaluatedPower = Fin(2 * slider) => drone_status = "NotDetected"
    /\ drone_status = "Detected" <=>
         (EvaluatedPower.kind = "fin" /\ EvaluatedPower.v > 2 * slider)

C3_Witness ==
  /\ Evaluated
  /\ EvaluatedPower = Fin(2 * slider)
  /\ drone_status = "NotDetected"

\* C4 as claimed: play() is called only by a step that changes the state
\* from Not Detected to Detected, and the sound is off whenever the state
\* becomes Not Detected.
C4_PlayOncePerTransition ==
  [][/\ played' => (drone_status = "NotDetected" /\ drone_status' = "Detected")
     /\ (drone_status = "Detected" /\ drone_status' = "NotDetected")
          => ~sound_playing']_vars

\* C4 as amended: play() is called by exactly the evaluations that give
\* Detected while the sound is not playing (every change from Not Detected to
\* Detected is one, and so is an evaluation that stays Detected after the
\* sound has finished), never while the sound is playing; stop() is called
\* by exactly the evaluations that give Not Detected while the sound is
\* playing, and the sound is off whenever the state becomes Not Detected.
C4_PlayWhenNotPlaying ==
  [][/\ played' <=> (Evaluated' /\ drone_status' = "Detected" /\ ~sound_playing)
     /\ (drone_status = "NotDetected" /\ drone_status' = "Detected") => played'
     /\ stopped' <=> (Evaluated' /\ drone_status' = "NotDetected" /\ sound_playing)
     /\ (drone_status = "Detected" /\ drone_status' = "NotDetected")
          => ~sound_playing']_vars

\* The sound is started again by an evaluation that leaves the state Detected.
C4_Witness ==
  /\ played
  /\ prev_status = "Detected"
  /\ drone_status = "Detected"

\* C5: once closeEvent has run, close() has been called exactly once and no
\* timer tick runs update_spectrum (and reads from the closed device).
C5_NoTickAfterClose ==
  ~device_open => (close_calls = 1 /\ op # "update_spectrum")

\* C6: an evaluated max power that is NaN or -inf gives Not Detected at every
\* threshold, and the handler does not fail.
C6_NonFiniteNotDetected ==
  (Evaluated /\ EvaluatedPower.kind \in {"nan", "neginf"})
    => (drone_status = "NotDetected" /\ phase # "crashed")

\* A NaN max power ends a detection.
C6_Witness ==
  /\ Evaluated
  /\ EvaluatedPower.kind = "nan"
  /\ prev_status = "Detected"
  /\ drone_status = "NotDetected"

\* Both paths have run on a finite complex buffer whose imaginary part is 0.
ZeroImagCompared ==
  /\ input # None
  /\ input.complex
  /\ input.finite
  /\ input.im = Zeros
  /\ spectrum_out # EmptyPlot
  /\ real_out # EmptyPlot

\* C7 as claimed: for a complex buffer with zero imaginary part the complex
\* path and the real path on the real part give the same frequencies and the
\* same power in every bin.
C7_ComplexEqualsReal == ZeroImagCompared => spectrum_out = real_out

\* C7 as amended: the frequencies are the same, and the power of each bin is
\* lower on the complex path by 10*log10(2), about 3.01 dB (between 3 and 4
\* dB in half-dB ticks); the two agree only in the bins of zero power, which
\* are -inf on both paths.
C7_ComplexThreeDbBelowReal ==
  ZeroImagCompared =>
    /\ spectrum_out.freqs = real_out.freqs
    /\ Len(spectrum_out.power) = Len(real_out.power)
    /\ \A k \in 1..Len(real_out.power) :
         LET r == real_out.power[k]
             c == spectrum_out.power[k]
         IN  /\ r.kind = c.kind
             /\ r.kind # "nan"
             /\ r.kind = "fin" => (r.v - 8 <= c.v /\ c.v <= r.v - 6)

C7_Witness ==
  /\ ZeroImagCompared
  /\ \E k \in 1..Len(real_out.power) : real_out.power[k].kind = "fin"

\* The power of every bin before the mask, as compute_spectrum computes it.
UnmaskedPower ==
  IF input.complex THEN power_complex(input) ELSE power_real_only(input)

\* C8: the returned frequencies are >= 0 and non-decreasing, they are all the
\* bins at 0 Hz and above in the order welch produced them, and the power
\* sequence has the same length with the power of bin k beside frequency k.
C8_NonNegativeOrderedAligned ==
  spectrum_out # EmptyPlot =>
    LET f == spectrum_out.freqs
        pw == spectrum_out.power
        kept == {k \in 1..Len(WelchFreqs) : WelchFreqs[k] >= 0}
    IN  /\ \A i \in 1..Len(f) : f[i] >= 0
        /\ \A i \in 1..(Len(f) - 1) : f[i] <= f[i + 1]
        /\ Len(f) = Cardinality(kept)
        /\ Len(pw) = Len(f)
        /\ \A i \in 1..Len(f) :
             \E k \in kept : f[i] = WelchFreqs[k] /\ pw[i] = UnmaskedPower[k]
        /\ \A i \in 1..Len(f), j \in 1..Len(f) :
             (i < j) =>
               \E k \in kept, l \in kept :
                 k < l /\ f[i] = WelchFreqs[k] /\ f[j] = WelchFreqs[l]

C8_Witness ==
  /\ spectrum_out # EmptyPlot
  /\ Len(spectrum_out.freqs) = 3
  /\ spectrum_out.power[1].kind = "fin"
  /\ spectrum_out.power[1] # spectrum_out.power[2]

\* The frequency the slider moved by the last handler stands for.
SliderFreq ==
  FREQ_MIN + FREQ_SCALE *
    (IF op = "on_freq_min_change" THEN freq_min_slider ELSE freq_max_slider)

FreqHandled == op \in {"on_freq_min_change", "on_freq_max_change"}

\* C9: each frequency-slider change sets center_freq to the average of its
\* value before and FREQ_MIN + v * FREQ_SCALE, leaving sample rate and gains
\* alone, and center_freq stays within [FREQ_MIN, FREQ_MAX].
C9_CenterFreqAveraged ==
  /\ [][FreqHandled' =>
          /\ center_freq'.exp = center_freq.exp + 1
          /\ center_freq'.num = center_freq.num + SliderFreq' * Pow2(center_freq.exp)
          /\ UNCHANGED <<sample_rate, lna_gain, vga_gain>>]_vars
  /\ [](/\ FREQ_MIN * Pow2(center_freq.exp) <= center_freq.num
        /\ center_freq.num <= FREQ_MAX * Pow2(center_freq.exp)
        /\ sample_rate = SAMPLE_RATE /\ lna_gain = LNA_GAIN /\ vga_gain = VGA_GAIN)

\* A second slider change, whose result is not the slider's own frequency.
C9_Witness ==
  /\ FreqHandled
  /\ center_freq.exp >= 2
  /\ center_freq.num # SliderFreq * Pow2(center_freq.exp)

\* C10: the sound is playing only while the status is Detected.
C10_PlayingOnlyWhileDetected ==
  sound_playing => drone_status = "Detected"

\* An evaluation that ends a detection has stopped the playing sound.
C10_Witness ==
  /\ stopped
  /\ prev_status = "Detected"
  /\ drone_status = "NotDetected"
  /\ ~sound_playing
====
